---- MODULE Spec2Model ----
(***************************************************************************)
(* Channel synchronisation pipeline of youtube-trend-tracker:              *)
(*   retry.CalculateBackoff / retry.DoWithContext   (internal/retry)       *)
(*   youtube.Client.FetchChannelVideos              (internal/youtube)     *)
(*   storage.BigQueryWriter.InsertVideoStats        (internal/storage)     *)
(*   fetcher.Fetcher.FetchAndStore                  (internal/fetcher)     *)
(*                                                                         *)
(* The specifications below share the definitions of this module:         *)
(*   SpecBackoff  CalculateBackoff applied to bounded inputs               *)
(*   SpecRetry    one call of DoWithContext with a cancellable context     *)
(*   Spec         one run of FetchAndStore over the configured channels    *)
(*   SpecLive     Spec with weak fairness of its steps                     *)
(*   SpecFetch    a run over one channel with many pages and batches       *)
(*   SpecItem     one item of videos.list on its way to a record           *)
(*   SpecBuild    the record-building loop for one channel, with a clock   *)
(*   SpecHandler  one request served by the HTTP handler                   *)
(*   SpecCancel   a run whose context is cancelled on the way              *)
(*   SpecExceeded IsMaxRetriesExceeded applied to the errors Do returns    *)
(*                                                                         *)
(* Durations.  time.Duration is an int64 count of nanoseconds.  The model  *)
(* counts a duration in whole time units.  The retry configurations of     *)
(* RetryConfigs are multiples of 2^UnitBits ns, so an int64 holds          *)
(* 2^(Int64Bits - UnitBits) of these units and the int64 product of        *)
(* CalculateBackoff wraps around exactly where the code's does.            *)
(* DefaultConfig is counted in seconds; DoWithContext multiplies in        *)
(* float64 and its products stay far inside the int64 range.               *)
(*                                                                         *)
(* Counts.  A view, like or comment count is a uint64.  The model counts   *)
(* it in units of 2^CountUnitBits, so a uint64 holds                       *)
(* 2^(Int64Bits - CountUnitBits) units and int64(x) changes sign exactly   *)
(* where the code's conversion does.                                       *)
(***************************************************************************)
EXTENDS Integers, Sequences, FiniteSets, TLC

(* ------------------------------ bounds -------------------------------- *)

\* largest Config.MaxAttempts tried by SpecRetry
MaxAttemptsBound == 5
\* largest attempt number handed to CalculateBackoff by SpecBackoff
MaxBackoffAttempt == 16
\* log2 of the time unit of RetryConfigs, in nanoseconds
UnitBits == 46
\* longest configured channel list of a run
MaxChannels == 2
\* largest maxVideosPerChannel of a run
MaxVideosBound == 2
\* the calls of one API made for one channel are counted up to this number
MaxCallsCounted == 4
\* largest days, hours and minutes component of an item's duration
MaxDays == 1
MaxHours == 1
MaxMinutes == 2
\* last tick of the wall clock
MaxClock == 3
\* most videos handed to the record-building loop of SpecBuild
MaxLoopVideos == 3

\* a view, like or comment count is a multiple of 2^CountUnitBits
CountUnitBits == 62
\* longest Message of an AppError handed to IsMaxRetriesExceeded
MaxMessageLen == 3

(* ------------------------- program constants -------------------------- *)

\* width of time.Duration (int64)
Int64Bits == 64
\* ids per videos.list call
BatchSize == 50
\* the bytes IsMaxRetriesExceeded slices off the error text: [:9]
PrefixLen == 9

DurationModulus == 2 ^ (Int64Bits - UnitBits)

\* the uint64 values, counted in units of 2^CountUnitBits
CountModulus == 2 ^ (Int64Bits - CountUnitBits)

\* two's-complement reading of an int64 result, in time units
WrapInt64(x) ==
    LET m == x % DurationModulus
    IN  IF m >= DurationModulus \div 2 THEN m - DurationModulus ELSE m

(* ------------------------------ errors -------------------------------- *)

\* the nil error
NoError == [kind |-> "nil"]

\* errors.New: Retriable is set from the type
New(errType, err) ==
    [kind |-> "AppError", type |-> errType, retriable |-> (errType = "TEMPORARY"),
     cause |-> err]

Temporary(err) == [New("TEMPORARY", err) EXCEPT !.retriable = TRUE]
API(err) == New("API", err)
Storage(err) == New("STORAGE", err)
Validation(err) == New("VALIDATION", err)

\* err.(*errors.AppError): the dynamic type of the error itself, not of what it wraps
IsAppError(err) == err.kind = "AppError"

IsRetriable(appErr) == appErr.retriable

\* *googleapi.Error with HTTP status code
GoogleAPIError(code) == [kind |-> "googleapi", code |-> code]

\* an error that is no *googleapi.Error (network failure, response decoding)
NetworkError == [kind |-> "network"]

\* fmt.Errorf("operation failed after %d attempts: %w", config.MaxAttempts, lastErr)
RetryExhaustedError(maxAttempts, last) ==
    [kind |-> "retryExhausted", attempts |-> maxAttempts, cause |-> last]

\* ctx.Err() of a done context
ContextError(which) == [kind |-> "context", which |-> which]

CtxCauses == {"Canceled", "DeadlineExceeded"}

\* fmt.Errorf(msg + ": %w", err)
Errorf(msg, err) == [kind |-> "wrapped", msg |-> msg, cause |-> err]

(* --------------------------- retry.Config ----------------------------- *)

\* Multiplier is a float64; the model keeps it as the exact fraction num/den
Mult(num, den) == [num |-> num, den |-> den]

DefaultConfig ==
    [MaxAttempts |-> 5, InitialDelay |-> 1, MaxDelay |-> 30, Multiplier |-> Mult(2, 1)]

Multipliers == {Mult(1, 2), Mult(1, 1), Mult(3, 2), Mult(2, 1), Mult(3, 1)}

\* the configurations SpecRetry and SpecBackoff draw from; durations in time units
RetryConfigs ==
    [MaxAttempts : 0 .. MaxAttemptsBound,
     InitialDelay : {32, 96},
     MaxDelay : {20, 32, 100},
     Multiplier : Multipliers]

(* ------------------------- CalculateBackoff --------------------------- *)

\* time.Duration(math.Pow(config.Multiplier, float64(attempt-1))): the power,
\* truncated toward zero by the float64 -> int64 conversion
PowTruncated(mult, k) == (mult.num ^ k) \div (mult.den ^ k)

CapMissing(delay, config) == delay

\* if delay > config.MaxDelay { return config.MaxDelay }; return delay
CapAtMaxDelay(delay, config) ==
    IF delay > config.MaxDelay THEN config.MaxDelay ELSE delay

\* config.InitialDelay * time.Duration(math.Pow(...)): an int64 product.  The
\* factor is reduced first, which leaves the product modulo 2^64 ns unchanged
BackoffProduct(attempt, config) ==
    WrapInt64(config.InitialDelay
              * (PowTruncated(config.Multiplier, attempt - 1) % DurationModulus))

CalculateBackoff(attempt, config) ==
    IF attempt <= 0
    THEN config.InitialDelay
    ELSE CapAtMaxDelay(BackoffProduct(attempt, config), config)

(* ------------------------------ state --------------------------------- *)

VARIABLES
    \* CalculateBackoff under test
    bAttempt,       \* the attempt argument
    bConfig,        \* the config argument
    bResult,        \* <<>> before the call, <<d>> once it returned d
    \* IsMaxRetriesExceeded under test
    xErr,           \* the err argument
    xMessage,       \* the Message of err when it is an AppError, as characters
    xResult,        \* "notCalled", then "true", "false" or "panic"
    \* one item of a videos.list response on its way to a record
    rawItem,        \* the item: its ContentDetails, or NoContentDetails
    itemVideo,      \* <<>>, then <<v>>: the Video the client built from it
    itemRecord,     \* <<>>, then <<r>>: the record the fetcher built from v
    rawStats,       \* the item's Statistics, or NoStatistics
    videoStats,     \* <<>>, then <<s>>: the counts of the Video
    recordStats,    \* <<>>, then <<s>>: the counts of the record
    \* the record-building loop of FetchAndStore for one channel
    now,            \* the wall clock, in ticks
    loopChannelID,  \* loop variable channelID
    loopVideos,     \* the videos FetchChannelVideos returned
    loopRecords,    \* local records, as far as built
    \* one request served by handler
    hpc,            \* "idle", "request", "client", "writer", "table", "run",
                    \* "responded"
    cfgChannels,    \* cfg.Channels
    handlerCalls,   \* the constructors and calls made so far, in order
    response,       \* what the ResponseWriter has received
    \* one activation of DoWithContext
    config,         \* its config argument
    rpc,            \* "idle", "loop" (loop condition), "op" (operation running),
                    \* "sleep" (select on time.After / ctx.Done), "done" (returned)
    attempt,        \* loop variable attempt
    delay,          \* local delay
    lastErr,        \* local lastErr
    opErr,          \* what the latest invocation of the operation returned
    rresult,        \* the error DoWithContext returned, once rpc = "done"
    calls,          \* invocations of the operation started by this activation
    failures,       \* invocations that returned a non-nil error
    sleeps,         \* the delays slept in full, in order
    events,         \* the log entries written by this activation, in order
    ctxErr,         \* ctx.Err(): "none" until the context is cancelled or times out
    cancelAt,       \* rpc at the moment the context became done ("never" before)
    callsAtCancel,  \* calls at that moment
    runCtxErr,      \* Err() of the ctx given to FetchAndStore
    apiErr,         \* what the API call inside the latest invocation returned
    \* one call of Client.FetchChannelVideos
    cpc,            \* "idle", "lookup" (channels.list running), "page" (retry.Do of a
                    \* playlistItems.list call), "batch" (retry.Do of a videos.list
                    \* call), "returned"
    maxResults,     \* argument maxResults
    pageSizes,      \* the numbers of items the upstream may put on one page
    apiCalls,       \* per API, the calls made so far for the current channel: the
                    \* channels.list calls, and the retry.Do calls around
                    \* playlistItems.list and videos.list; counting stops at
                    \* MaxCallsCounted
    chResp,         \* local ch: the answer of channels.list, NoAnswer before it
    batchLog,       \* the batchIDs of the videos.list calls made for the current
                    \* channel, one entry per retry.Do call, in order
    allVideoIDs,    \* local allVideoIDs
    nextPageToken,  \* local nextPageToken
    itResp,         \* local itResp
    batchStart,     \* loop variable i of the batch loop
    vResp,          \* local vResp
    allVideos,      \* local allVideos
    fetchVideos,    \* the videos FetchChannelVideos returned
    fetchErr,       \* the error FetchChannelVideos returned
    \* one run of Fetcher.FetchAndStore
    fpc,            \* "idle", "loop" (range loop head), "fetch" (FetchChannelVideos
                    \* running), "insert" (inserter.Put running), "returned", "panicked"
    channelIDs,     \* argument channelIDs
    idx,            \* position of the range loop in channelIDs, from 1
    records,        \* local records of the current channel
    SuccessfulChannels,
    FailedChannels,
    TotalVideos,
    ret,            \* the error FetchAndStore returned
    fetchStarted,   \* the channel ids FetchChannelVideos was called with, in order
    outcomes,       \* per processed list position: "fetchFailed", "writeFailed", "ok"
    putCalls,       \* the inserter.Put calls: <<channel id, number of records>>
    insertCalls     \* the InsertVideoStats calls: <<channel id, records>>

backoffVars == <<bAttempt, bConfig, bResult>>
exceededVars == <<xErr, xMessage, xResult>>
itemVars == <<rawItem, itemVideo, itemRecord, rawStats, videoStats, recordStats>>
buildVars == <<now, loopChannelID, loopVideos, loopRecords>>
handlerVars == <<hpc, cfgChannels, handlerCalls, response>>
unitVars == <<backoffVars, exceededVars, itemVars, buildVars, handlerVars>>
retryVars ==
    <<config, rpc, attempt, delay, lastErr, opErr, rresult, calls, failures, sleeps,
      events,
      apiErr>>
ctxVars == <<ctxErr, cancelAt, callsAtCancel>>
clientVars ==
    <<cpc, maxResults, pageSizes, chResp, apiCalls, batchLog, allVideoIDs,
      nextPageToken, itResp, batchStart, vResp, allVideos, fetchVideos, fetchErr>>
fetcherVars ==
    <<fpc, channelIDs, idx, records, SuccessfulChannels, FailedChannels, TotalVideos,
      ret, fetchStarted, outcomes, putCalls,
                   insertCalls>>
vars == <<unitVars, runCtxErr, retryVars, ctxVars, clientVars, fetcherVars>>

BackoffIdle ==
    /\ bAttempt = 0
    /\ bConfig = DefaultConfig
    /\ bResult = <<>>

\* an item whose ContentDetails pointer is nil
NoContentDetails == [Duration |-> <<>>, present |-> FALSE]

\* an item whose Statistics pointer is nil
NoStatistics == [ViewCount |-> 0, LikeCount |-> 0, CommentCount |-> 0, present |-> FALSE]

ItemIdle ==
    /\ rawItem = NoContentDetails
    /\ itemVideo = <<>>
    /\ itemRecord = <<>>
    /\ rawStats = NoStatistics
    /\ videoStats = <<>>
    /\ recordStats = <<>>

BuildIdle ==
    /\ now = 0
    /\ loopChannelID = ""
    /\ loopVideos = <<>>
    /\ loopRecords = <<>>

\* nothing written to the ResponseWriter
NoResponseWritten == [status |-> 0, body |-> <<>>]

ExceededIdle ==
    /\ xErr = NoError
    /\ xMessage = <<>>
    /\ xResult = "notCalled"

HandlerIdle ==
    /\ hpc = "idle"
    /\ cfgChannels = <<>>
    /\ handlerCalls = <<>>
    /\ response = NoResponseWritten

RetryIdle ==
    /\ config = DefaultConfig
    /\ rpc = "idle"
    /\ attempt = 0
    /\ delay = 0
    /\ lastErr = NoError
    /\ opErr = NoError
    /\ rresult = NoError
    /\ calls = 0
    /\ failures = 0
    /\ sleeps = <<>>
    /\ events = <<>>
    /\ apiErr = NoError

\* channels.list has not answered
NoAnswer == [err |-> NoError, items |-> 0, complete |-> FALSE]

\* no API call made yet
NoCalls == [channels |-> 0, playlistItems |-> 0, videos |-> 0]

\* a nil response pointer
NoResponse == [items |-> <<>>, token |-> "", complete |-> TRUE]

ClientIdle ==
    /\ cpc = "idle"
    /\ maxResults = 1
    /\ pageSizes = {}
    /\ apiCalls = NoCalls
    /\ chResp = NoAnswer
    /\ batchLog = <<>>
    /\ allVideoIDs = <<>>
    /\ nextPageToken = ""
    /\ itResp = NoResponse
    /\ batchStart = 0
    /\ vResp = NoResponse
    /\ allVideos = <<>>
    /\ fetchVideos = <<>>
    /\ fetchErr = NoError

FetcherIdle ==
    /\ fpc = "idle"
    /\ channelIDs = <<>>
    /\ idx = 1
    /\ records = <<>>
    /\ SuccessfulChannels = <<>>
    /\ FailedChannels = <<>>
    /\ TotalVideos = 0
    /\ ret = NoError
    /\ fetchStarted = <<>>
    /\ outcomes = <<>>
    /\ putCalls = <<>>
    /\ insertCalls = <<>>

\* context.Background(), or a context nobody has cancelled yet
CtxLive ==
    /\ ctxErr = "none"
    /\ cancelAt = "never"
    /\ callsAtCancel = 0
    /\ runCtxErr = "none"

(* --------------------------- DoWithContext ---------------------------- *)

\* delay = time.Duration(float64(delay) * config.Multiplier), capped at MaxDelay
NextDelay(d, cfg) ==
    LET next == (d * cfg.Multiplier.num) \div cfg.Multiplier.den
    IN  IF next > cfg.MaxDelay THEN cfg.MaxDelay ELSE next

IsLastAttemptOneEarly(a, cfg) == a = cfg.MaxAttempts - 1

\* if attempt == config.MaxAttempts { break }
IsLastAttempt(a, cfg) == a = cfg.MaxAttempts

IsNonRetriableUnchecked(err) == FALSE

\* the type assertion and IsRetriable test that end the loop with err itself
IsNonRetriable(err) == IsAppError(err) /\ ~IsRetriable(err)

LastErrKeptFromFirstFailure(err, previous) == IF previous = NoError THEN err ELSE previous

\* lastErr = err
LastErrAfter(err, previous) == err

ReturnLastErr(err) ==
    /\ rpc' = "done"
    /\ rresult' = lastErr

\* return err (nil, the operation's error, ctx.Err() or the exhaustion error)
Return(err) ==
    /\ rpc' = "done"
    /\ rresult' = err

RetryEnterOnSpentBudget(cfg) ==
    /\ config' = cfg
    /\ rpc' = "loop"
    /\ attempt' = IF rpc = "done" THEN attempt ELSE 1
    /\ delay' = IF rpc = "done" THEN delay ELSE cfg.InitialDelay
    /\ lastErr' = NoError
    /\ opErr' = NoError
    /\ rresult' = NoError
    /\ calls' = 0
    /\ failures' = 0
    /\ sleeps' = <<>>
    /\ events' = <<>>
    /\ apiErr' = NoError

\* entry: var lastErr error; delay := config.InitialDelay; attempt := 1
RetryEnter(cfg) ==
    /\ config' = cfg
    /\ rpc' = "loop"
    /\ attempt' = 1
    /\ delay' = cfg.InitialDelay
    /\ lastErr' = NoError
    /\ opErr' = NoError
    /\ rresult' = NoError
    /\ calls' = 0
    /\ failures' = 0
    /\ sleeps' = <<>>
    /\ events' = <<>>
    /\ apiErr' = NoError

LoopHeadWithoutCtxPoll ==
    /\ rpc = "loop"
    /\ IF attempt > config.MaxAttempts
       THEN /\ Return(RetryExhaustedError(config.MaxAttempts, lastErr))
            /\ UNCHANGED calls
       ELSE /\ rpc' = "op"
            /\ calls' = calls + 1
            /\ UNCHANGED rresult
    /\ UNCHANGED <<config, attempt, delay, lastErr, opErr, failures, sleeps, events,
                   apiErr>>

\* the loop condition, the ctx.Done() poll and the start of operation(ctx)
LoopHead ==
    /\ rpc = "loop"
    /\ IF attempt > config.MaxAttempts
       THEN /\ Return(RetryExhaustedError(config.MaxAttempts, lastErr))
            /\ UNCHANGED calls
       ELSE IF ctxErr # "none"
       THEN /\ Return(ContextError(ctxErr))
            /\ UNCHANGED calls
       ELSE /\ rpc' = "op"
            /\ calls' = calls + 1
            /\ UNCHANGED rresult
    /\ UNCHANGED <<config, attempt, delay, lastErr, opErr, failures, sleeps, events,
                   apiErr>>

\* log.Info / log.Error / log.Warning: an entry of the given level, written during
\* the current attempt, whose message and fields carry the values named
Logged(level, carried) ==
    events' = Append(events, [level |-> level, during |-> attempt, carries |-> carried])

\* operation(ctx) returned err: success, non-retriable error, last attempt, or sleep
OperationReturns(err) ==
    /\ rpc = "op"
    /\ opErr' = err
    /\ IF err = NoError
       THEN /\ Return(NoError)
            /\ IF attempt > 1
               THEN Logged("Info", {"attempt"})
               ELSE UNCHANGED events
            /\ UNCHANGED <<lastErr, failures>>
       ELSE /\ lastErr' = LastErrAfter(err, lastErr)
            /\ failures' = failures + 1
            /\ IF IsNonRetriable(err)
               THEN /\ Return(err)
                    /\ Logged("Error", {"err"})
               ELSE IF IsLastAttempt(attempt, config)
               THEN /\ Return(RetryExhaustedError(config.MaxAttempts,
                                                  LastErrAfter(err, lastErr)))
                    /\ UNCHANGED events
               ELSE /\ rpc' = "sleep"
                    /\ Logged("Warning", {"attempt", "delay", "err"})
                    /\ UNCHANGED rresult
    /\ UNCHANGED <<config, attempt, delay, calls, sleeps>>

(* -------- the closures FetchChannelVideos hands to retry.Do ----------- *)

StatusCodes == {400, 401, 403, 404, 429, 499, 500, 502, 503, 599, 600}

\* what an API call returns when it fails
APIErrors == {GoogleAPIError(c) : c \in StatusCodes} \cup {NetworkError}

IsTemporaryStatusWithout429(code) == code >= 500 /\ code < 600

\* e.Code == 429 || (e.Code >= 500 && e.Code < 600)
IsTemporaryStatus(code) == code = 429 \/ (code >= 500 /\ code < 600)

\* the error the closure returns for the API call's apiErr
ClassifyAPIError(e) ==
    IF e = NoError THEN NoError
    ELSE IF e.kind = "googleapi"
    THEN IF IsTemporaryStatus(e.code) THEN Temporary(e) ELSE API(e)
    ELSE e

\* case <-time.After(delay): next delay, attempt++
SleepElapsed ==
    /\ rpc = "sleep"
    /\ sleeps' = Append(sleeps, delay)
    /\ delay' = NextDelay(delay, config)
    /\ attempt' = attempt + 1
    /\ rpc' = "loop"
    /\ UNCHANGED <<config, lastErr, opErr, rresult, calls, failures, events, apiErr>>

\* case <-ctx.Done(): return ctx.Err()
SleepInterrupted ==
    /\ rpc = "sleep"
    /\ ctxErr # "none"
    /\ Return(ContextError(ctxErr))
    /\ UNCHANGED <<config, attempt, delay, lastErr, opErr, calls, failures, sleeps, events,
                   apiErr>>

(* --------------------- Client.FetchChannelVideos ---------------------- *)

\* one more call of the API named api
Called(api) ==
    apiCalls' = [apiCalls EXCEPT
                    ![api] = IF @ < MaxCallsCounted THEN @ + 1 ELSE MaxCallsCounted]

VideosOnErrorKept(videos) == videos

\* return nil, fmt.Errorf(...): what has been fetched so far is not returned
VideosOnError(videos) == <<>>

ClientReturns(videos, err) ==
    /\ cpc' = "returned"
    /\ fetchVideos' = videos
    /\ fetchErr' = err

\* retry.Do returned and the client does not call it again right away
RetryLeave ==
    /\ rpc' = "idle"
    /\ UNCHANGED <<config, attempt, delay, lastErr, opErr, rresult, calls, failures,
                   sleeps, events, apiErr>>

\* the frame of a finished retry.Do is gone
RetryFrameDropped ==
    /\ config' = DefaultConfig
    /\ rpc' = "idle"
    /\ attempt' = 0
    /\ delay' = 0
    /\ lastErr' = NoError
    /\ opErr' = NoError
    /\ rresult' = NoError
    /\ calls' = 0
    /\ failures' = 0
    /\ sleeps' = <<>>
    /\ events' = <<>>
    /\ apiErr' = NoError

\* a nil pointer is dereferenced: the panic unwinds FetchChannelVideos and FetchAndStore
Panic ==
    /\ fpc' = "panicked"
    /\ cpc' = "idle"
    /\ UNCHANGED <<fetchVideos, fetchErr>>

\* errors of the API calls of a run
RunAPIErrors == {GoogleAPIError(404), GoogleAPIError(503)}

\* what channels.list answers: an error, or a response with 0 or 1 items, the item
\* with or without its snippet and contentDetails parts
ChannelsListAnswers ==
    [err : RunAPIErrors, items : {0}, complete : {TRUE}]
        \cup [err : {NoError}, items : {0, 1}, complete : {TRUE}]
        \cup [err : {NoError}, items : {1}, complete : {FALSE}]

LookupFailedOnErrorOnly(ans) == ans.err # NoError

\* if err != nil || len(ch.Items) == 0
LookupFailed(ans) == ans.err # NoError \/ ans.items = 0

\* ch, err := c.service.Channels.List(...).Do() returned, up to the first
\* playlistItems.list call
ChannelsListReturns ==
    /\ cpc = "lookup"
    /\ \E ans \in ChannelsListAnswers :
          /\ chResp' = ans
          /\ IF LookupFailed(ans)
             THEN /\ ClientReturns(<<>>, Errorf("channels.list", ans.err))
                  /\ UNCHANGED <<retryVars, fpc, apiCalls>>
             ELSE IF ~ans.complete
             THEN /\ Panic
                  /\ UNCHANGED <<retryVars, apiCalls>>
             ELSE /\ cpc' = "page"
                  /\ RetryEnter(DefaultConfig)
                  /\ Called("playlistItems")
                  /\ UNCHANGED <<fetchVideos, fetchErr, fpc>>
    /\ allVideoIDs' = <<>>
    /\ nextPageToken' = ""
    /\ UNCHANGED <<maxResults, pageSizes, batchLog, itResp, batchStart, vResp, allVideos>>
    /\ UNCHANGED <<unitVars, runCtxErr, ctxVars>>
    /\ UNCHANGED <<channelIDs, idx, records, SuccessfulChannels, FailedChannels,
                   TotalVideos, ret, fetchStarted, outcomes, putCalls,
                   insertCalls>>

\* the loop of DoWithContext inside retry.Do, whose context is context.Background()
ClientRetryLoopHead ==
    /\ cpc \in {"page", "batch"}
    /\ LoopHead
    /\ UNCHANGED <<unitVars, runCtxErr, ctxVars, clientVars, fetcherVars>>

ClientRetrySleepElapsed ==
    /\ cpc \in {"page", "batch"}
    /\ SleepElapsed
    /\ UNCHANGED <<unitVars, runCtxErr, ctxVars, clientVars, fetcherVars>>

PageTokens == {"", "tokA"}

\* the item ids of a page: fresh ids, numbered on from the ids collected so far
PageItems(n) == [j \in 1 .. n |-> Len(allVideoIDs) + j]

\* a playlistItems.list response: at most maxResults items (MaxResults(maxResults)),
\* each with or without its contentDetails part
PlaylistItemsResponses ==
    {[items |-> PageItems(n), token |-> t, complete |-> c] :
        n \in {m \in pageSizes : m <= maxResults}, t \in PageTokens, c \in {TRUE}}
        \cup {[items |-> PageItems(1), token |-> "", complete |-> FALSE]}

\* itResp, apiErr = itCall.Do() returned inside the closure under retry
PlaylistItemsReturns ==
    /\ cpc = "page"
    /\ \/ \E e \in RunAPIErrors :
             /\ OperationReturns(ClassifyAPIError(e))
             /\ apiErr' = e
             /\ itResp' = NoResponse
       \/ \E resp \in PlaylistItemsResponses :
             /\ OperationReturns(NoError)
             /\ apiErr' = NoError
             /\ itResp' = resp
    /\ UNCHANGED <<cpc, maxResults, pageSizes, chResp,
                   apiCalls, batchLog, allVideoIDs,
                   nextPageToken, batchStart,
                   vResp, allVideos, fetchVideos, fetchErr>>
    /\ UNCHANGED <<unitVars, runCtxErr, ctxVars, fetcherVars>>

\* end := i + 50, cut to len(allVideoIDs)
BatchEnd(i, ids) == IF i + BatchSize > Len(ids) THEN Len(ids) ELSE i + BatchSize

BatchIDsUnsplit(i, ids) == ids

\* batchIDs := allVideoIDs[i:end]
BatchIDs(i, ids) == SubSeq(ids, i + 1, BatchEnd(i, ids))

\* retry.Do is called for the batch that starts at i
BatchCalled(i, ids) ==
    /\ Called("videos")
    /\ batchLog' = Append(batchLog, BatchIDs(i, ids))

PaginationEndsOnEmptyTokenOnly(token, ids) == token = ""

\* if nextPageToken == "" || int64(len(allVideoIDs)) >= maxResults { break }
PaginationEnds(token, ids) == token = "" \/ Len(ids) >= maxResults

\* the empty return taken only for a nil slice, never for an empty one
NoIdsCollectedNilOnly(ids) == FALSE

\* if len(allVideoIDs) == 0 { return nil, nil }
NoIdsCollected(ids) == Len(ids) = 0

\* retry.Do of a page returned: the error return, or the ids appended and then the
\* next iteration with its own itResp, the first batch call, or return nil, nil
PageDone ==
    /\ cpc = "page"
    /\ rpc = "done"
    /\ IF rresult # NoError
       THEN /\ ClientReturns(VideosOnError(<<>>), Errorf("playlistItems.list", rresult))
            /\ RetryLeave
            /\ UNCHANGED <<allVideoIDs, nextPageToken, batchStart, fpc, apiCalls,
                           batchLog>>
       ELSE IF ~itResp.complete
       THEN /\ Panic
            /\ RetryLeave
            /\ UNCHANGED <<allVideoIDs, nextPageToken, batchStart, apiCalls, batchLog>>
       ELSE LET ids == allVideoIDs \o itResp.items
            IN  /\ allVideoIDs' = ids
                /\ nextPageToken' = itResp.token
                /\ UNCHANGED fpc
                /\ IF ~PaginationEnds(itResp.token, ids)
                   THEN /\ RetryEnter(DefaultConfig)
                        /\ Called("playlistItems")
                        /\ UNCHANGED <<cpc, batchStart, batchLog, fetchVideos, fetchErr>>
                   ELSE IF NoIdsCollected(ids)
                   THEN /\ ClientReturns(<<>>, NoError)
                        /\ RetryLeave
                        /\ UNCHANGED <<batchStart, apiCalls, batchLog>>
                   ELSE /\ cpc' = "batch"
                        /\ batchStart' = 0
                        /\ RetryEnter(DefaultConfig)
                        /\ BatchCalled(0, ids)
                        /\ UNCHANGED <<fetchVideos, fetchErr>>
    /\ itResp' = NoResponse
    /\ UNCHANGED <<maxResults, pageSizes, chResp,
                   vResp, allVideos>>
    /\ UNCHANGED <<unitVars, runCtxErr, ctxVars>>
    /\ UNCHANGED <<channelIDs, idx, records, SuccessfulChannels, FailedChannels,
                   TotalVideos, ret, fetchStarted, outcomes, putCalls,
                   insertCalls>>

\* a videos.list response for the batch: every requested video or all but the first
\* (the API leaves out videos it no longer serves), each with or without its snippet
VideosListResponses ==
    LET ids == BatchIDs(batchStart, allVideoIDs)
    IN  {[items |-> ids, token |-> "", complete |-> TRUE],
         [items |-> Tail(ids), token |-> "", complete |-> TRUE],
         [items |-> ids, token |-> "", complete |-> FALSE]}

\* vResp, apiErr = c.service.Videos.List(...).Id(batchIDs...).Do() returned
VideosListReturns ==
    /\ cpc = "batch"
    /\ \/ \E e \in RunAPIErrors :
             /\ OperationReturns(ClassifyAPIError(e))
             /\ apiErr' = e
             /\ vResp' = NoResponse
       \/ \E resp \in VideosListResponses :
             /\ OperationReturns(NoError)
             /\ apiErr' = NoError
             /\ vResp' = resp
    /\ UNCHANGED <<cpc, maxResults, pageSizes, chResp,
                   apiCalls, batchLog, allVideoIDs,
                   nextPageToken, itResp,
                   batchStart, allVideos, fetchVideos, fetchErr>>
    /\ UNCHANGED <<unitVars, runCtxErr, ctxVars, fetcherVars>>

\* &Video{ID: item.Id, ...}
Video(id) == [ID |-> id]

\* retry.Do of a batch returned: the error return, or the videos appended and then
\* the next iteration with its own vResp, or return allVideos, nil
BatchDone ==
    /\ cpc = "batch"
    /\ rpc = "done"
    /\ IF rresult # NoError
       THEN /\ ClientReturns(VideosOnError(allVideos), Errorf("videos.list", rresult))
            /\ RetryLeave
            /\ UNCHANGED <<allVideos, batchStart, fpc, apiCalls, batchLog>>
       ELSE IF ~vResp.complete
       THEN /\ Panic
            /\ RetryLeave
            /\ UNCHANGED <<allVideos, batchStart, apiCalls, batchLog>>
       ELSE LET videos == allVideos \o [j \in 1 .. Len(vResp.items) |-> Video(vResp.items[j])]
            IN  /\ allVideos' = videos
                /\ batchStart' = batchStart + BatchSize
                /\ UNCHANGED fpc
                /\ IF batchStart + BatchSize < Len(allVideoIDs)
                   THEN /\ RetryEnter(DefaultConfig)
                        /\ BatchCalled(batchStart + BatchSize, allVideoIDs)
                        /\ UNCHANGED <<cpc, fetchVideos, fetchErr>>
                   ELSE /\ ClientReturns(videos, NoError)
                        /\ RetryLeave
                        /\ UNCHANGED <<apiCalls, batchLog>>
    /\ vResp' = NoResponse
    /\ UNCHANGED <<maxResults, pageSizes, chResp,
                   allVideoIDs, nextPageToken, itResp>>
    /\ UNCHANGED <<unitVars, runCtxErr, ctxVars>>
    /\ UNCHANGED <<channelIDs, idx, records, SuccessfulChannels, FailedChannels,
                   TotalVideos, ret, fetchStarted, outcomes, putCalls,
                   insertCalls>>

(* ------------- item processing of FetchChannelVideos ------------------ *)
(* A string is a sequence of one-character strings.  A time.Duration is    *)
(* counted in milliseconds here: the durations of this section are far     *)
(* from the int64 range, and no finer unit reaches the derived fields.     *)

\* time.Second
Second == 1000
Minute == 60 * Second
Hour == 60 * Minute

DigitChars == <<"0", "1", "2", "3", "4", "5", "6", "7", "8", "9">>

DigitSet == {DigitChars[i] : i \in 1 .. Len(DigitChars)}

DigitValue(c) == (CHOOSE i \in 1 .. Len(DigitChars) : DigitChars[i] = c) - 1

\* strings.TrimPrefix
TrimPrefix(s, prefix) ==
    IF Len(s) >= Len(prefix) /\ SubSeq(s, 1, Len(prefix)) = prefix
    THEN SubSeq(s, Len(prefix) + 1, Len(s))
    ELSE s

\* strings.NewReplacer("T", "", "H", "h", "M", "m", "S", "s") on one character
ReplaceChar(c) ==
    CASE c = "T" -> <<>>
      [] c = "H" -> <<"h">>
      [] c = "M" -> <<"m">>
      [] c = "S" -> <<"s">>
      [] OTHER   -> <<c>>

RECURSIVE Replace(_)
Replace(s) == IF s = <<>> THEN <<>> ELSE ReplaceChar(Head(s)) \o Replace(Tail(s))

\* the unit table of time.ParseDuration, 0 for a unit it does not know
UnitOf(u) ==
    CASE u = <<"m", "s">> -> 1
      [] u = <<"s">>      -> Second
      [] u = <<"m">>      -> Minute
      [] u = <<"h">>      -> Hour
      [] OTHER            -> 0

RECURSIVE DigitPrefixLen(_)
DigitPrefixLen(s) ==
    IF s # <<>> /\ Head(s) \in DigitSet THEN 1 + DigitPrefixLen(Tail(s)) ELSE 0

RECURSIVE UnitPrefixLen(_)
UnitPrefixLen(s) ==
    IF s # <<>> /\ Head(s) # "." /\ Head(s) \notin DigitSet
    THEN 1 + UnitPrefixLen(Tail(s))
    ELSE 0

RECURSIVE DecimalValue(_)
DecimalValue(ds) ==
    IF ds = <<>>
    THEN 0
    ELSE 10 * DecimalValue(SubSeq(ds, 1, Len(ds) - 1)) + DigitValue(ds[Len(ds)])

ParseFailed == [d |-> 0, ok |-> FALSE]

\* the loop of time.ParseDuration: <digits>[.<digits>]<unit>, repeated
RECURSIVE ParseTerms(_, _)
ParseTerms(s, acc) ==
    IF s = <<>>
    THEN [d |-> acc, ok |-> TRUE]
    ELSE LET nInt     == DigitPrefixLen(s)
             afterInt == SubSeq(s, nInt + 1, Len(s))
             hasDot   == afterInt # <<>> /\ Head(afterInt) = "."
             afterDot == IF hasDot THEN Tail(afterInt) ELSE afterInt
             nFrac    == IF hasDot THEN DigitPrefixLen(afterDot) ELSE 0
             rest     == SubSeq(afterDot, nFrac + 1, Len(afterDot))
             nUnit    == UnitPrefixLen(rest)
             unit     == UnitOf(SubSeq(rest, 1, nUnit))
             v        == DecimalValue(SubSeq(s, 1, nInt))
             f        == DecimalValue(SubSeq(afterDot, 1, nFrac))
         IN  IF nInt = 0 /\ nFrac = 0
             THEN ParseFailed
             ELSE IF nUnit = 0 \/ unit = 0
             THEN ParseFailed
             ELSE ParseTerms(SubSeq(rest, nUnit + 1, Len(rest)),
                             acc + v * unit + (f * unit) \div (10 ^ nFrac))

\* time.ParseDuration on an unsigned string
ParseDuration(s) ==
    IF s = <<"0">>
    THEN [d |-> 0, ok |-> TRUE]
    ELSE IF s = <<>> THEN ParseFailed ELSE ParseTerms(s, 0)

parseISODuration(isoDuration) == ParseDuration(Replace(TrimPrefix(isoDuration, <<"P">>)))

\* int64(duration.Seconds())
Seconds(d) == d \div Second

\* a Video without ContentDetails, or with a duration that does not parse
ItemDefaults == [DurationSec |-> 0, IsShort |-> FALSE]

\* the durationSec and isShort FetchChannelVideos derives for one item
ItemFields(itm) ==
    IF ~itm.present
    THEN ItemDefaults
    ELSE LET parsed == parseISODuration(itm.Duration)
         IN  IF parsed.ok
             THEN [DurationSec |-> Seconds(parsed.d),
                   IsShort     |-> parsed.d <= 60 * Second]
             ELSE ItemDefaults

\* var views, likes, comments uint64, set from item.Statistics unless it is nil
ItemCounts(stats) ==
    IF stats.present
    THEN [Views |-> stats.ViewCount, Likes |-> stats.LikeCount,
          Comments |-> stats.CommentCount]
    ELSE [Views |-> 0, Likes |-> 0, Comments |-> 0]

(* ---------------------- IsMaxRetriesExceeded ------------------------- *)

\* the text every exhaustion error of DoWithContext starts with
OperationText == <<"o", "p", "e", "r", "a", "t", "i", "o", "n">>

\* ErrorType as text
TypeText(errType) ==
    CASE errType = "CONFIG"     -> <<"C", "O", "N", "F", "I", "G">>
      [] errType = "API"        -> <<"A", "P", "I">>
      [] errType = "STORAGE"    -> <<"S", "T", "O", "R", "A", "G", "E">>
      [] errType = "VALIDATION" -> <<"V", "A", "L", "I", "D", "A", "T", "I", "O", "N">>
      [] errType = "TEMPORARY"  -> <<"T", "E", "M", "P", "O", "R", "A", "R", "Y">>

RECURSIVE DecimalText(_)
\* %d of a non-negative int
DecimalText(n) ==
    IF n < 10
    THEN <<DigitChars[n + 1]>>
    ELSE DecimalText(n \div 10) \o <<DigitChars[(n % 10) + 1]>>

RECURSIVE ErrorText(_, _)
\* err.Error(), which is what fmt.Sprintf("%v", err) prints: message is the
\* Message of err itself when err is an AppError; an AppError that err wraps
\* has an empty Message
ErrorText(err, message) ==
    CASE err.kind = "AppError" ->
            <<"[">> \o TypeText(err.type) \o <<"]", " ">> \o message
                \o (IF err.cause = NoError
                    THEN <<>>
                    ELSE <<":", " ">> \o ErrorText(err.cause, <<>>))
      [] err.kind = "retryExhausted" ->
            OperationText \o <<" ", "f", "a", "i", "l", "e", "d", " ", "a", "f", "t", "e", "r", " ">>
                \o DecimalText(IF err.attempts < 0 THEN 0 ELSE err.attempts)
                \o <<" ", "a", "t", "t", "e", "m", "p", "t", "s", ":", " ">>
                \o (IF err.cause = NoError
                    THEN <<"%", "!", "w", "(", "<", "n", "i", "l", ">", ")">>
                    ELSE ErrorText(err.cause, <<>>))
      [] err.kind = "context" ->
            IF err.which = "Canceled"
            THEN <<"c", "o", "n", "t", "e", "x", "t", " ", "c", "a", "n", "c", "e", "l", "e", "d">>
            ELSE <<"c", "o", "n", "t", "e", "x", "t", " ", "d", "e", "a", "d", "l", "i", "n", "e", " ", "e", "x", "c", "e", "e", "d", "e", "d">>
      [] err.kind = "googleapi" ->
            <<"g", "o", "o", "g", "l", "e", "a", "p", "i", ":", " ", "E", "r", "r", "o", "r", " ">> \o DecimalText(err.code) \o <<":", " ">>
      [] err.kind = "network" -> <<"E", "O", "F">>

\* IsMaxRetriesExceeded(err): "panic" when the text is shorter than the slice
IsMaxRetriesExceeded(err, message) ==
    IF err = NoError
    THEN "false"
    ELSE LET text == ErrorText(err, message)
         IN  IF Len(text) < PrefixLen
             THEN "panic"
             ELSE IF SubSeq(text, 1, PrefixLen) = OperationText
             THEN "true"
             ELSE "false"

(* ----------------------- Fetcher.FetchAndStore ------------------------ *)

\* result.FailedChannels[channelID] = appErr on a Go map
MapSet(m, k, v) == [x \in DOMAIN m \cup {k} |-> IF x = k THEN v ELSE m[x]]

\* &storage.VideoStatsRecord{ChannelID: channelID, VideoID: video.ID, ...}
VideoStatsRecord(channelID, video) == [ChannelID |-> channelID, VideoID |-> video.ID]

NextAfterFailureBreaks(i, n) == n + 1

\* continue: the range loop goes on with the next element
NextAfterFailure(i, n) == i + 1

\* if len(result.FailedChannels) == len(channelIDs)
AllChannelsFailed(failed, ids) == Cardinality(DOMAIN failed) = Len(ids)

\* for _, channelID := range channelIDs: the next element, up to the channels.list call
StartChannel ==
    /\ fpc = "loop"
    /\ idx <= Len(channelIDs)
    /\ fpc' = "fetch"
    /\ fetchStarted' = Append(fetchStarted, channelIDs[idx])
    /\ cpc' = "lookup"
    /\ apiCalls' = [NoCalls EXCEPT !.channels = 1]
    /\ UNCHANGED <<maxResults, pageSizes, chResp,
                   batchLog, allVideoIDs, nextPageToken, itResp, batchStart,
                   vResp, allVideos, fetchVideos, fetchErr>>
    /\ UNCHANGED <<channelIDs, idx, records, SuccessfulChannels, FailedChannels,
                   TotalVideos, ret, outcomes, putCalls,
                   insertCalls>>
    /\ UNCHANGED <<unitVars, runCtxErr, retryVars, ctxVars>>

\* result.TotalVideos = len(records): the count replaced instead of added to
TotalVideosReplaced(total, n) == n

\* result.TotalVideos += len(records)
TotalVideosAfter(total, n) == total + n

ChannelSucceeded(n) ==
    /\ SuccessfulChannels' = Append(SuccessfulChannels, channelIDs[idx])
    /\ TotalVideos' = TotalVideosAfter(TotalVideos, n)
    /\ outcomes' = Append(outcomes, "ok")
    /\ idx' = idx + 1
    /\ fpc' = "loop"
    /\ records' = <<>>
    /\ UNCHANGED FailedChannels

ChannelFailed(appErr, stage) ==
    /\ FailedChannels' = MapSet(FailedChannels, channelIDs[idx], appErr)
    /\ outcomes' = Append(outcomes, stage)
    /\ idx' = NextAfterFailure(idx, Len(channelIDs))
    /\ fpc' = "loop"
    /\ records' = <<>>
    /\ UNCHANGED <<SuccessfulChannels, TotalVideos>>

BuildRecordsWithoutLast(channelID, videos) ==
    [j \in 1 .. Len(videos) - 1 |-> VideoStatsRecord(channelID, videos[j])]

\* for _, video := range videos { records = append(records, ...) }
BuildRecords(channelID, videos) ==
    [j \in 1 .. Len(videos) |-> VideoStatsRecord(channelID, videos[j])]

InsertIsNoOpNever(recs) == FALSE

\* InsertVideoStats: if len(records) == 0 { return nil }
InsertIsNoOp(recs) == Len(recs) = 0

FetchFailedIgnored(err) == FALSE

\* videos, err := FetchChannelVideos(...); if err != nil
FetchFailed(err) == err # NoError

\* errors.Storage(..., fmt.Errorf("failed to insert records into BigQuery: %w", err))
PutFailed(err) == Storage(Errorf("failed to insert records into BigQuery", err))

\* FetchChannelVideos returned, its frame and that of retry.Do gone: the failure
\* branch, or the records built and InsertVideoStats called, which returns nil at once
\* for no records and else calls Put; a Put called with a context that is done
\* fails with the context's error
FetchReturned ==
    /\ fpc = "fetch"
    /\ cpc = "returned"
    /\ cpc' = "idle"
    /\ IF FetchFailed(fetchErr)
       THEN /\ ChannelFailed(API(fetchErr), "fetchFailed")
            /\ UNCHANGED <<putCalls, insertCalls>>
       ELSE LET recs == BuildRecords(channelIDs[idx], fetchVideos)
            IN  /\ insertCalls' = Append(insertCalls, <<channelIDs[idx], recs>>)
                /\ IF InsertIsNoOp(recs)
                   THEN /\ ChannelSucceeded(Len(recs))
                        /\ UNCHANGED putCalls
                   ELSE IF runCtxErr # "none"
                   THEN /\ ChannelFailed(PutFailed(ContextError(runCtxErr)), "writeFailed")
                        /\ putCalls' = Append(putCalls, <<channelIDs[idx], Len(recs)>>)
                   ELSE /\ fpc' = "insert"
                        /\ records' = recs
                        /\ putCalls' = Append(putCalls, <<channelIDs[idx], Len(recs)>>)
                        /\ UNCHANGED <<idx, SuccessfulChannels, FailedChannels,
                                       TotalVideos, outcomes>>
    /\ apiCalls' = NoCalls
    /\ chResp' = NoAnswer
    /\ batchLog' = <<>>
    /\ allVideoIDs' = <<>>
    /\ nextPageToken' = ""
    /\ itResp' = NoResponse
    /\ batchStart' = 0
    /\ vResp' = NoResponse
    /\ allVideos' = <<>>
    /\ fetchVideos' = <<>>
    /\ fetchErr' = NoError
    /\ RetryFrameDropped
    /\ UNCHANGED <<channelIDs, ret, fetchStarted, maxResults, pageSizes>>
    /\ UNCHANGED <<unitVars, runCtxErr, ctxVars>>

\* a row given to the streaming insert without an insert id of the program's
NoInsertID == <<>>

\* inserter.Put(ctx, records): each *VideoStatsRecord becomes one row of the
\* request; the program sets no insert id, neither in the record nor on the inserter
SinkRow(rec) == [InsertID |-> NoInsertID, Values |-> rec]

\* errors of inserter.Put
PutErrors == {GoogleAPIError(503)}

\* a Put whose context became done while it ran may fail with the context's error
PutInterrupted == IF runCtxErr # "none" THEN {ContextError(runCtxErr)} ELSE {}

\* inserter.Put returned, up to the end of the loop body
PutReturns ==
    /\ fpc = "insert"
    /\ \E e \in PutErrors \cup {NoError} \cup PutInterrupted :
          IF e # NoError
          THEN ChannelFailed(PutFailed(e), "writeFailed")
          ELSE ChannelSucceeded(Len(records))
    /\ UNCHANGED <<channelIDs, ret, fetchStarted, putCalls,
                   insertCalls>>
    /\ UNCHANGED <<unitVars, runCtxErr, retryVars, ctxVars, clientVars>>

\* errors.New(errors.ErrTypeAPI, "All channels failed to process", nil)
AllChannelsFailedError == New("API", NoError)

\* the range loop is over: the summary and the return
FinishRun ==
    /\ fpc = "loop"
    /\ idx > Len(channelIDs)
    /\ fpc' = "returned"
    /\ ret' = IF AllChannelsFailed(FailedChannels, channelIDs)
              THEN AllChannelsFailedError
              ELSE NoError
    /\ UNCHANGED <<channelIDs, idx, records, SuccessfulChannels, FailedChannels,
                   TotalVideos, fetchStarted, outcomes, putCalls,
                   insertCalls>>
    /\ UNCHANGED <<unitVars, runCtxErr, retryVars, ctxVars, clientVars>>

(* ------------------------------ handler ------------------------------- *)

StatusOK == 200
StatusInternalServerError == 500

\* http.Error(w, msg, code): the status, and the message printed with Fprintln
HttpError(msg, code) == [status |-> code, body |-> <<msg, "\n">>]

\* json.NewEncoder(w).Encode(map[string]string{"status": "success"})
SuccessResponse == [status |-> StatusOK, body |-> <<"{\"status\":\"success\"}", "\n">>]

RECURSIVE GetEnabledChannelIDs(_)
GetEnabledChannelIDs(channels) ==
    IF channels = <<>>
    THEN <<>>
    ELSE (IF Head(channels).Enabled THEN <<Head(channels).ID>> ELSE <<>>)
             \o GetEnabledChannelIDs(Tail(channels))

NoEnabledChannelsUnchecked(ids) == FALSE

\* if len(channelIDs) == 0
NoEnabledChannels(ids) == Len(ids) = 0

HandlerCalled(name, arg) == handlerCalls' = Append(handlerCalls, <<name, arg>>)

HandlerResponds(resp) ==
    /\ hpc' = "responded"
    /\ response' = resp

HandlerFrame ==
    UNCHANGED <<backoffVars, exceededVars, itemVars, buildVars, cfgChannels, runCtxErr,
                retryVars, ctxVars,
                clientVars, fetcherVars>>

\* what a constructor or call of the handler may return
SetupErrors == {NoError, NetworkError}

\* the request arrives: the enabled ids are read, and with none of them the
\* handler answers at once, else it goes on to create the YouTube client
HandlerEnters ==
    /\ hpc = "request"
    /\ IF NoEnabledChannels(GetEnabledChannelIDs(cfgChannels))
       THEN /\ HandlerResponds(HttpError("No channels configured", StatusInternalServerError))
            /\ UNCHANGED handlerCalls
       ELSE /\ hpc' = "client"
            /\ HandlerCalled("youtube.NewClient", <<>>)
            /\ UNCHANGED response
    /\ HandlerFrame

NewClientReturns ==
    /\ hpc = "client"
    /\ \E err \in SetupErrors :
        IF err # NoError
        THEN /\ HandlerResponds(HttpError("Failed to create YouTube client",
                                          StatusInternalServerError))
             /\ UNCHANGED handlerCalls
        ELSE /\ hpc' = "writer"
             /\ HandlerCalled("storage.NewBigQueryWriterWithConfig", <<>>)
             /\ UNCHANGED response
    /\ HandlerFrame

NewBigQueryWriterReturns ==
    /\ hpc = "writer"
    /\ \E err \in SetupErrors :
        IF err # NoError
        THEN /\ HandlerResponds(HttpError("Failed to create BigQuery writer",
                                          StatusInternalServerError))
             /\ UNCHANGED handlerCalls
        ELSE /\ hpc' = "table"
             /\ HandlerCalled("EnsureTableExists", <<>>)
             /\ UNCHANGED response
    /\ HandlerFrame

EnsureTableExistsReturns ==
    /\ hpc = "table"
    /\ \E err \in SetupErrors :
        IF err # NoError
        THEN /\ HandlerResponds(HttpError("Failed to setup BigQuery table",
                                          StatusInternalServerError))
             /\ UNCHANGED handlerCalls
        ELSE /\ hpc' = "run"
             /\ HandlerCalled("FetchAndStore", GetEnabledChannelIDs(cfgChannels))
             /\ UNCHANGED response
    /\ HandlerFrame

FetchAndStoreReturns ==
    /\ hpc = "run"
    /\ \E err \in {NoError, AllChannelsFailedError} :
        IF err # NoError
        THEN HandlerResponds(HttpError("An error occurred during the fetch and store process",
                                       StatusInternalServerError))
        ELSE HandlerResponds(SuccessResponse)
    /\ UNCHANGED handlerCalls
    /\ HandlerFrame

(* ------------------------ Spec: one run ------------------------------- *)

ChannelIDSet == {"UCa", "UCb"}

\* the non-empty channel lists of a run, repeated ids included
ChannelLists ==
    UNION {[1 .. n -> ChannelIDSet] : n \in 1 .. MaxChannels}

\* FetchAndStore(ctx, list, max) is entered for a list of lists and a max of maxes;
\* the upstream puts a number of sizes on a page
InitRun(lists, maxes, sizes) ==
    /\ ExceededIdle
    /\ BackoffIdle
    /\ ItemIdle
    /\ BuildIdle
    /\ HandlerIdle
    /\ RetryIdle
    /\ CtxLive
    /\ cpc = "idle"
    /\ maxResults \in maxes
    /\ pageSizes = sizes
    /\ apiCalls = NoCalls
    /\ chResp = NoAnswer
    /\ batchLog = <<>>
    /\ allVideoIDs = <<>>
    /\ nextPageToken = ""
    /\ itResp = NoResponse
    /\ batchStart = 0
    /\ vResp = NoResponse
    /\ allVideos = <<>>
    /\ fetchVideos = <<>>
    /\ fetchErr = NoError
    /\ fpc = "loop"
    /\ channelIDs \in lists
    /\ idx = 1
    /\ records = <<>>
    /\ SuccessfulChannels = <<>>
    /\ FailedChannels = <<>>
    /\ TotalVideos = 0
    /\ ret = NoError
    /\ fetchStarted = <<>>
    /\ outcomes = <<>>
    /\ putCalls = <<>>
    /\ insertCalls = <<>>

\* a run over any channel list, against an upstream of short pages; SpecFetch
\* varies maxVideosPerChannel and the page sizes
Init == InitRun(ChannelLists, {MaxVideosBound}, {0, 1})

Next ==
    \/ StartChannel
    \/ ChannelsListReturns
    \/ ClientRetryLoopHead
    \/ ClientRetrySleepElapsed
    \/ PlaylistItemsReturns
    \/ PageDone
    \/ VideosListReturns
    \/ BatchDone
    \/ FetchReturned
    \/ PutReturns
    \/ FinishRun

Spec == Init /\ [][Next]_vars

\* the run keeps going while a step is possible: every call that was made returns
Fairness == WF_vars(Next)

SpecLive == Spec /\ Fairness

(* ------------- SpecCancel: a run whose context is cancelled ----------- *)

\* the ctx given to FetchAndStore becomes done while the run is under way
CancelRun ==
    /\ runCtxErr = "none"
    /\ fpc \in {"loop", "fetch", "insert"}
    /\ \E cause \in CtxCauses : runCtxErr' = cause
    /\ UNCHANGED <<unitVars, retryVars, ctxVars, clientVars, fetcherVars>>

InitCancel == InitRun({<<"UCa", "UCb">>}, {MaxVideosBound}, {0, 1})

NextCancel == Next \/ CancelRun

SpecCancel == InitCancel /\ [][NextCancel]_vars

(* ------------- SpecFetch: one channel, pages and batches -------------- *)

\* maxVideosPerChannel below, just above and at twice the batch size and one more
FetchMaxResults == {1, 3, BatchSize + 1, 2 * BatchSize + 1}

\* page sizes up to the 50 items the API puts on a page at most
FetchPageSizes == {0, 1, 2, BatchSize}

InitFetch == InitRun({<<"UCa">>}, FetchMaxResults, FetchPageSizes)

SpecFetch == InitFetch /\ [][Next]_vars

(* ---------- SpecItem: one item from videos.list to its record --------- *)

Optional(S) == {<<>>} \cup {<<n>> : n \in S}

\* the seconds components tried, around the 60 s limit of a short
SecondsValues == {0, 1, 45, 59, 60, 61}

\* the lengths an item may have: ISO 8601 components, <<>> for one left out
ItemLengths ==
    {l \in [days    : Optional(0 .. MaxDays),
            hours   : Optional(0 .. MaxHours),
            minutes : Optional(0 .. MaxMinutes),
            seconds : Optional(SecondsValues),
            tenths  : Optional({5})] :
        /\ <<l.days, l.hours, l.minutes, l.seconds>> # <<<<>>, <<>>, <<>>, <<>>>>
        /\ l.tenths # <<>> => l.seconds # <<>>}

RECURSIVE Decimal(_)
Decimal(n) ==
    IF n < 10
    THEN <<DigitChars[n + 1]>>
    ELSE Decimal(n \div 10) \o <<DigitChars[(n % 10) + 1]>>

Designator(component, letter) ==
    IF component = <<>> THEN <<>> ELSE Decimal(component[1]) \o <<letter>>

\* the ISO 8601 duration string of a length, as in ContentDetails.Duration
ISODuration(l) ==
    LET fraction == IF l.tenths = <<>> THEN <<>> ELSE <<".">> \o Decimal(l.tenths[1])
        secs     == IF l.seconds = <<>>
                    THEN <<>>
                    ELSE Decimal(l.seconds[1]) \o fraction \o <<"S">>
        time     == Designator(l.hours, "H") \o Designator(l.minutes, "M") \o secs
    IN  <<"P">> \o Designator(l.days, "D")
            \o (IF time = <<>> THEN <<>> ELSE <<"T">> \o time)

ContentDetails(l) == [Duration |-> ISODuration(l), present |-> TRUE]

\* the uint64 counts the API may return
Uint64Counts == 0 .. CountModulus - 1

Statistics(views, likes, comments) ==
    [ViewCount |-> views, LikeCount |-> likes, CommentCount |-> comments,
     present |-> TRUE]

InitItem ==
    /\ ExceededIdle
    /\ BackoffIdle
    /\ rawItem \in {ContentDetails(l) : l \in ItemLengths} \cup {NoContentDetails}
    /\ itemVideo = <<>>
    /\ itemRecord = <<>>
    /\ rawStats \in {Statistics(v, l, c) : v, l, c \in Uint64Counts} \cup {NoStatistics}
    /\ videoStats = <<>>
    /\ recordStats = <<>>
    /\ BuildIdle
    /\ HandlerIdle
    /\ RetryIdle
    /\ CtxLive
    /\ ClientIdle
    /\ FetcherIdle

\* FetchChannelVideos turns the item into a Video
ItemProcessed ==
    /\ itemVideo = <<>>
    /\ itemVideo' = <<ItemFields(rawItem)>>
    /\ videoStats' = <<ItemCounts(rawStats)>>
    /\ UNCHANGED <<backoffVars, rawItem, itemRecord, rawStats, recordStats, buildVars,
                   handlerVars, exceededVars, runCtxErr,
                   retryVars, ctxVars, clientVars,
                   fetcherVars>>

\* FetchAndStore copies the derived fields of the Video into its record
RecordFields(v) == [DurationSec |-> v.DurationSec, IsShort |-> v.IsShort]

\* int64(x) of a uint64 x: the same 64 bits read as two's complement
Int64OfUint64(x) == IF x >= CountModulus \div 2 THEN x - CountModulus ELSE x

\* Views: int64(video.Views), Likes: int64(video.Likes), Comments: int64(video.Comments)
RecordCounts(v) ==
    [Views |-> Int64OfUint64(v.Views), Likes |-> Int64OfUint64(v.Likes),
     Comments |-> Int64OfUint64(v.Comments)]

RecordBuilt ==
    /\ itemVideo # <<>>
    /\ itemRecord = <<>>
    /\ itemRecord' = <<RecordFields(itemVideo[1])>>
    /\ recordStats' = <<RecordCounts(videoStats[1])>>
    /\ UNCHANGED <<backoffVars, rawItem, itemVideo, rawStats, videoStats, buildVars,
                   handlerVars, exceededVars, runCtxErr,
                   retryVars, ctxVars, clientVars,
                   fetcherVars>>

NextItem == ItemProcessed \/ RecordBuilt

SpecItem == InitItem /\ [][NextItem]_vars

(* -------- SpecBuild: the record-building loop for one channel --------- *)

\* ticks of the wall clock in one calendar day
TicksPerDay == 2

\* civil.DateOf(t): the calendar day of an instant
DateOf(t) == t \div TicksPerDay

\* todayJST(), its time.Now() reading the instant t
todayJST(t) == DateOf(t)

\* &storage.VideoStatsRecord{CreatedAt: time.Now(), Dt: todayJST(), ...}
StampedRecord(channelID, video, t) ==
    VideoStatsRecord(channelID, video) @@ [Dt |-> todayJST(t), CreatedAt |-> t]

InitBuild ==
    /\ ExceededIdle
    /\ BackoffIdle
    /\ ItemIdle
    /\ now \in 0 .. MaxClock
    /\ loopChannelID \in ChannelIDSet
    /\ loopVideos \in {[j \in 1 .. n |-> Video(j)] : n \in 0 .. MaxLoopVideos}
    /\ loopRecords = <<>>
    /\ HandlerIdle
    /\ RetryIdle
    /\ CtxLive
    /\ ClientIdle
    /\ FetcherIdle

\* one iteration of for _, video := range videos
RecordAppended ==
    /\ Len(loopRecords) < Len(loopVideos)
    /\ loopRecords' =
           Append(loopRecords,
                  StampedRecord(loopChannelID, loopVideos[Len(loopRecords) + 1], now))
    /\ UNCHANGED <<backoffVars, itemVars, now, loopChannelID, loopVideos, handlerVars, exceededVars,
                   runCtxErr, retryVars,
                   ctxVars, clientVars, fetcherVars>>

\* time passes
ClockAdvances ==
    /\ now < MaxClock
    /\ now' = now + 1
    /\ UNCHANGED <<backoffVars, itemVars, loopChannelID, loopVideos, loopRecords,
                   handlerVars, exceededVars, runCtxErr,
                   retryVars, ctxVars, clientVars, fetcherVars>>

NextBuild == RecordAppended \/ ClockAdvances

SpecBuild == InitBuild /\ [][NextBuild]_vars

(* ------------------ SpecHandler: one request served ------------------- *)

\* cfg.Channels: up to MaxChannels entries, each enabled or not
ChannelConfigs ==
    UNION {[1 .. n -> [ID : ChannelIDSet, Enabled : BOOLEAN]] : n \in 0 .. MaxChannels}

InitHandler ==
    /\ ExceededIdle
    /\ BackoffIdle
    /\ ItemIdle
    /\ BuildIdle
    /\ hpc = "request"
    /\ cfgChannels \in ChannelConfigs
    /\ handlerCalls = <<>>
    /\ response = NoResponseWritten
    /\ RetryIdle
    /\ CtxLive
    /\ ClientIdle
    /\ FetcherIdle

NextHandler ==
    \/ HandlerEnters
    \/ NewClientReturns
    \/ NewBigQueryWriterReturns
    \/ EnsureTableExistsReturns
    \/ FetchAndStoreReturns

SpecHandler == InitHandler /\ [][NextHandler]_vars

(* ------------------- SpecBackoff: CalculateBackoff -------------------- *)

InitBackoff ==
    /\ ExceededIdle
    /\ bAttempt \in -1 .. MaxBackoffAttempt
    /\ bConfig \in RetryConfigs
    /\ bResult = <<>>
    /\ ItemIdle
    /\ BuildIdle
    /\ HandlerIdle
    /\ RetryIdle
    /\ CtxLive
    /\ ClientIdle
    /\ FetcherIdle

CallCalculateBackoff ==
    /\ bResult = <<>>
    /\ bResult' = <<CalculateBackoff(bAttempt, bConfig)>>
    /\ UNCHANGED <<bAttempt, bConfig, itemVars, buildVars, handlerVars, exceededVars, runCtxErr,
                   retryVars, ctxVars, clientVars, fetcherVars>>

NextBackoff == CallCalculateBackoff

SpecBackoff == InitBackoff /\ [][NextBackoff]_vars

(* --------------------- SpecRetry: DoWithContext ----------------------- *)

\* what the operation under retry may return
OperationErrors ==
    {NoError, Temporary(NoError), Temporary(GoogleAPIError(429)),
     Validation(NoError), API(GoogleAPIError(404)), NetworkError}

InitRetry ==
    /\ ExceededIdle
    /\ BackoffIdle
    /\ ItemIdle
    /\ BuildIdle
    /\ HandlerIdle
    /\ config \in RetryConfigs
    /\ rpc = "idle"
    /\ attempt = 0
    /\ delay = 0
    /\ lastErr = NoError
    /\ opErr = NoError
    /\ rresult = NoError
    /\ calls = 0
    /\ failures = 0
    /\ sleeps = <<>>
    /\ events = <<>>
    /\ apiErr = NoError
    /\ CtxLive
    /\ ClientIdle
    /\ FetcherIdle

CallDoWithContext ==
    /\ rpc = "idle"
    /\ RetryEnter(config)
    /\ UNCHANGED <<unitVars, runCtxErr, ctxVars, clientVars, fetcherVars>>

RetryLoopHead ==
    /\ LoopHead
    /\ UNCHANGED <<unitVars, runCtxErr, ctxVars, clientVars, fetcherVars>>

RetryOperationReturns ==
    /\ \/ \E err \in OperationErrors :
             /\ OperationReturns(err)
             /\ apiErr' = NoError
       \/ \E e \in APIErrors \cup {NoError} :
             /\ OperationReturns(ClassifyAPIError(e))
             /\ apiErr' = e
    /\ UNCHANGED <<unitVars, runCtxErr, ctxVars, clientVars, fetcherVars>>

RetrySleepElapsed ==
    /\ SleepElapsed
    /\ UNCHANGED <<unitVars, runCtxErr, ctxVars, clientVars, fetcherVars>>

RetrySleepInterrupted ==
    /\ SleepInterrupted
    /\ UNCHANGED <<unitVars, runCtxErr, ctxVars, clientVars, fetcherVars>>

\* the caller cancels ctx, or its deadline passes, while DoWithContext has not returned
CancelContext ==
    /\ ctxErr = "none"
    /\ rpc # "done"
    /\ \E cause \in CtxCauses : ctxErr' = cause
    /\ cancelAt' = rpc
    /\ callsAtCancel' = calls
    /\ UNCHANGED <<unitVars, runCtxErr, retryVars, clientVars, fetcherVars>>

NextRetry ==
    \/ CallDoWithContext
    \/ RetryLoopHead
    \/ RetryOperationReturns
    \/ RetrySleepElapsed
    \/ RetrySleepInterrupted
    \/ CancelContext

SpecRetry == InitRetry /\ [][NextRetry]_vars

(* ------------- SpecExceeded: IsMaxRetriesExceeded --------------------- *)

MessageChars == {"o", "x"}

\* the Messages tried: every text over MessageChars up to MaxMessageLen long
Messages == UNION {[1 .. n -> MessageChars] : n \in 0 .. MaxMessageLen}

\* the types of an AppError that DoWithContext returns at once
PermanentTypes == {"CONFIG", "API", "STORAGE", "VALIDATION"}

\* what an operation under retry fails with before the attempts run out
TransientErrors == {Temporary(NoError), Temporary(GoogleAPIError(429)), NetworkError}

\* the errors Do and DoWithContext return, each with the Message it carries
ReturnedErrors ==
    {<<NoError, <<>>>>}
        \cup {<<ContextError(c), <<>>>> : c \in CtxCauses}
        \cup {<<New(t, cause), m>> :
                 t \in PermanentTypes, cause \in {NoError, GoogleAPIError(404)},
                 m \in Messages}
        \cup {<<RetryExhaustedError(n, e), <<>>>> :
                 n \in 1 .. MaxAttemptsBound, e \in TransientErrors}
        \cup {<<RetryExhaustedError(0, NoError), <<>>>>}

InitExceeded ==
    /\ \E returned \in ReturnedErrors :
          /\ xErr = returned[1]
          /\ xMessage = returned[2]
    /\ xResult = "notCalled"
    /\ BackoffIdle
    /\ ItemIdle
    /\ BuildIdle
    /\ HandlerIdle
    /\ RetryIdle
    /\ CtxLive
    /\ ClientIdle
    /\ FetcherIdle

CallIsMaxRetriesExceeded ==
    /\ xResult = "notCalled"
    /\ xResult' = IsMaxRetriesExceeded(xErr, xMessage)
    /\ UNCHANGED <<xErr, xMessage, backoffVars, itemVars, buildVars, handlerVars,
                   runCtxErr, retryVars, ctxVars, clientVars, fetcherVars>>

NextExceeded == CallIsMaxRetriesExceeded

SpecExceeded == InitExceeded /\ [][NextExceeded]_vars

(* ------------------- properties of CalculateBackoff ------------------- *)

BackoffReturned == bResult # <<>>

MultiplierAtLeastOne(cfg) == cfg.Multiplier.num >= cfg.Multiplier.den

\* C9: CalculateBackoff(1, cfg) = InitialDelay and, for n > 1,
\* CalculateBackoff(n, cfg) = min(InitialDelay * Multiplier^(n-1), MaxDelay),
\* for every configuration with Multiplier >= 1.  The exact product is the
\* fraction InitialDelay * num^(n-1) / den^(n-1).
C9_BackoffIsCappedExponential ==
    (BackoffReturned /\ bAttempt >= 1 /\ MultiplierAtLeastOne(bConfig)) =>
        LET k == bAttempt - 1
            p == bConfig.InitialDelay * (bConfig.Multiplier.num ^ k)
            q == bConfig.Multiplier.den ^ k
        IN  IF bAttempt = 1
            THEN bResult[1] = bConfig.InitialDelay
            ELSE IF p > bConfig.MaxDelay * q
            THEN bResult[1] = bConfig.MaxDelay
            ELSE bResult[1] * q = p

\* C10: for every attempt >= 1 and every configuration with
\* InitialDelay <= MaxDelay, CalculateBackoff(attempt, cfg) <= MaxDelay.
C10_BackoffAtMostMaxDelay ==
    (BackoffReturned /\ bAttempt >= 1 /\ bConfig.InitialDelay <= bConfig.MaxDelay) =>
        bResult[1] <= bConfig.MaxDelay

\* the cap was applied: the uncapped int64 product exceeded MaxDelay
C10_Witness ==
    /\ BackoffReturned
    /\ bAttempt >= 2
    /\ bConfig.InitialDelay < bConfig.MaxDelay
    /\ BackoffProduct(bAttempt, bConfig) > bConfig.MaxDelay
    /\ bResult[1] = bConfig.MaxDelay

\* C11: CalculateBackoff is non-decreasing in the attempt number: for every
\* attempt n >= 1, CalculateBackoff(n, cfg) <= CalculateBackoff(n + 1, cfg), also
\* for large n after the cap has been reached.  Stated for the configurations
\* with Multiplier >= 1 and InitialDelay <= MaxDelay, whose exact capped
\* exponential is non-decreasing.
C11_BackoffNonDecreasing ==
    (/\ BackoffReturned
     /\ bAttempt >= 1
     /\ MultiplierAtLeastOne(bConfig)
     /\ bConfig.InitialDelay <= bConfig.MaxDelay) =>
        bResult[1] <= CalculateBackoff(bAttempt + 1, bConfig)

(* -------------------- properties of DoWithContext --------------------- *)

\* a failure DoWithContext retries: a retriable AppError or any other error type
IsTransient(err) == err # NoError /\ ~IsNonRetriable(err)

\* C4: for every maxAttempts >= 1, an operation that always fails with a
\* transient error is invoked exactly maxAttempts times, never more, and the
\* call then returns the retry-exhaustion error.  (A run of DoWithContext goes
\* on after a failure only if the failure was transient, so at the return the
\* operation has always failed transiently iff its last invocation did.)
C4_TransientFailuresExhaustAttempts ==
    /\ calls <= config.MaxAttempts
    /\ (rpc = "done" /\ config.MaxAttempts >= 1 /\ ctxErr = "none" /\ IsTransient(opErr)) =>
           /\ calls = config.MaxAttempts
           /\ failures = config.MaxAttempts
           /\ rresult = RetryExhaustedError(config.MaxAttempts, opErr)

C4_Witness ==
    /\ rpc = "done"
    /\ ctxErr = "none"
    /\ config.MaxAttempts = 3
    /\ IsTransient(opErr)
    /\ calls = 3
    /\ rresult.kind = "retryExhausted"

\* C5: for every k < maxAttempts, an operation that fails k times with a
\* transient error and then succeeds is invoked exactly k+1 times and the call
\* returns nil; a success on the first attempt returns without any sleep.
C5_SuccessAfterTransientFailures ==
    (rpc = "done" /\ calls >= 1 /\ opErr = NoError) =>
        /\ failures < config.MaxAttempts
        /\ calls = failures + 1
        /\ rresult = NoError
        /\ Len(sleeps) = failures

C5_Witness ==
    /\ rpc = "done"
    /\ config.MaxAttempts = 5
    /\ failures = 2
    /\ calls = 3
    /\ opErr = NoError
    /\ rresult = NoError

\* C6: when an attempt fails with a permanent (non-retriable) error, no further
\* attempt and no sleep follow and that same error is returned, not the
\* exhaustion error; on the first attempt the operation has run exactly once.
C6_PermanentErrorEndsRetry ==
    (opErr # NoError /\ IsAppError(opErr) /\ ~IsRetriable(opErr)) =>
        /\ rpc = "done"
        /\ rresult = opErr
        /\ calls = failures
        /\ Len(sleeps) = failures - 1
        /\ (failures = 1 => calls = 1 /\ sleeps = <<>>)

C6_Witness ==
    /\ rpc = "done"
    /\ config.MaxAttempts = 5
    /\ opErr = Validation(NoError)
    /\ calls = 1
    /\ rresult = Validation(NoError)

\* C7: if the context is cancelled, or its deadline passes, while the executor
\* is in a backoff sleep or before an attempt starts, no further attempt of the
\* operation is started and DoWithContext returns the context's error, which is
\* not the retry-exhaustion error.
C7_CancellationStopsRetry ==
    (rpc = "done" /\ config.MaxAttempts >= 1 /\ cancelAt \in {"idle", "loop", "sleep"}) =>
        /\ rresult = ContextError(ctxErr)
        /\ rresult.kind # "retryExhausted"
        /\ calls = callsAtCancel

C7_Witness ==
    /\ rpc = "done"
    /\ cancelAt = "sleep"
    /\ calls >= 1
    /\ calls < config.MaxAttempts
    /\ rresult = ContextError("DeadlineExceeded")

\* the attempt that failed last is followed by another one unless the attempts are
\* used up: DoWithContext has not returned, or it returned the exhaustion error
\* after MaxAttempts invocations
Retried ==
    rpc = "done" =>
        /\ rresult = RetryExhaustedError(config.MaxAttempts, opErr)
        /\ calls = config.MaxAttempts

\* C8: whether a failed API call is retried is a function of its status: 429 and
\* 5xx are handed to the executor as transient and retried; any other structured
\* API status is handed over as permanent and returned without a retry; an error
\* that carries no status is handed over as it is and retried as transient.
C8_RetryDecisionByStatus ==
    (apiErr # NoError /\ ctxErr = "none") =>
        IF apiErr.kind = "googleapi"
        THEN IF apiErr.code = 429 \/ apiErr.code \in 500 .. 599
             THEN /\ opErr = Temporary(apiErr)
                  /\ Retried
             ELSE /\ opErr = API(apiErr)
                  /\ rpc = "done"
                  /\ rresult = opErr
                  /\ calls = failures
        ELSE /\ opErr = apiErr
             /\ Retried

C8_Witness ==
    /\ rpc = "op"
    /\ calls = 2
    /\ apiErr = GoogleAPIError(429)
    /\ lastErr = Temporary(GoogleAPIError(429))
    /\ ctxErr = "none"

\* C26: a call of DoWithContext that made n attempts and was not cancelled
\* slept exactly n-1 times, none of them after the final attempt, and the
\* sleep after failed attempt k lasted CalculateBackoff(k, config).
C26_SleepsFollowBackoffPolicy ==
    (rpc = "done" /\ ctxErr = "none" /\ calls >= 1) =>
        /\ Len(sleeps) = calls - 1
        /\ \A k \in 1 .. Len(sleeps) : sleeps[k] = CalculateBackoff(k, config)

\* errors.Unwrap of an error built by fmt.Errorf with %w
Unwrap(err) == err.cause

\* C27: the error DoWithContext returns on retry exhaustion wraps the error
\* of the last attempt made: unwrapping it yields what the last invocation
\* of the operation returned.
C27_ExhaustionWrapsLastError ==
    (rpc = "done" /\ rresult.kind = "retryExhausted" /\ calls >= 1) =>
        /\ rresult.attempts = config.MaxAttempts
        /\ Unwrap(rresult) = opErr
        /\ opErr # NoError

C27_Witness ==
    /\ rpc = "done"
    /\ calls = 3
    /\ opErr = Temporary(GoogleAPIError(429))
    /\ rresult = RetryExhaustedError(3, Temporary(GoogleAPIError(429)))

\* C31: exactly one event is emitted per attempt of the operation, for the
\* successful first attempt and the final failed attempt too, and the event
\* of attempt k carries the attempt number, the delay chosen and the error
\* kind.
C31_OneEventPerAttempt ==
    (rpc \in {"sleep", "done"} /\ ctxErr = "none") =>
        /\ Len(events) = calls
        /\ \A k \in 1 .. Len(events) :
               /\ events[k].during = k
               /\ {"attempt", "delay", "kind"} \subseteq events[k].carries

\* C35: for every Config, MaxAttempts <= 0 included, DoWithContext called
\* with a context that is not cancelled invokes the operation at least once,
\* and an exhaustion error it returns wraps a real error of an attempt.
C35_AtLeastOneAttempt ==
    (rpc = "done" /\ ctxErr = "none") =>
        /\ calls >= 1
        /\ rresult.kind = "retryExhausted" =>
               /\ rresult.cause # NoError
               /\ rresult.cause = opErr

(* ----------------- properties of IsMaxRetriesExceeded ---------------- *)

\* C36: IsMaxRetriesExceeded returns true for the exhaustion error of
\* Do/DoWithContext and returns false, without a panic, for nil, for a
\* context error and for every permanent error, whatever its Message.
C36_ExceededIffExhaustion ==
    xResult # "notCalled" =>
        /\ xResult # "panic"
        /\ xResult = "true" <=> xErr.kind = "retryExhausted"

(* -------------------- properties of FetchAndStore --------------------- *)

Range(seq) == {seq[i] : i \in 1 .. Len(seq)}

RunReturned == fpc = "returned"

\* C1: for every non-empty channel list, repeated ids included, FetchAndStore
\* returns an error when every channel of the list failed and nil when at least
\* one channel succeeded.
C1_ErrorIffEveryChannelFailed ==
    RunReturned =>
        (ret # NoError <=> \A i \in 1 .. Len(outcomes) : outcomes[i] # "ok")

\* C2: every configured channel is attempted exactly once, in list order; a fetch
\* or write failure of one channel never keeps a later channel from being
\* attempted.
C2_EveryChannelAttemptedOnceInOrder ==
    /\ Len(fetchStarted) <= Len(channelIDs)
    /\ fetchStarted = SubSeq(channelIDs, 1, Len(fetchStarted))
    /\ Len(outcomes) = idx - 1
    /\ fpc \in {"loop", "returned"} => Len(fetchStarted) = Len(outcomes)
    /\ fpc \in {"fetch", "insert"} => Len(fetchStarted) = Len(outcomes) + 1
    /\ RunReturned => fetchStarted = channelIDs

C2_Witness ==
    /\ RunReturned
    /\ channelIDs = <<"UCa", "UCb">>
    /\ fetchStarted = <<"UCa", "UCb">>
    /\ outcomes \in {<<"fetchFailed", "writeFailed">>, <<"writeFailed", "ok">>}

\* C3: when FetchAndStore finishes, every configured channel id is in exactly one
\* of SuccessfulChannels and FailedChannels, and the two sizes add up to the
\* number of configured channels.
C3_ChannelsPartitioned ==
    RunReturned =>
        /\ \A id \in Range(channelIDs) :
              (id \in Range(SuccessfulChannels)) # (id \in DOMAIN FailedChannels)
        /\ Len(SuccessfulChannels) + Cardinality(DOMAIN FailedChannels)
              = Len(channelIDs)

\* C25: whatever the upstream answers for a channel, the run does not end in
\* a panic: FetchAndStore returns, with nil or the all-channels-failed error,
\* and every channel that did not succeed is in FailedChannels.
C25_ChannelFailuresStayInRun ==
    /\ fpc # "panicked"
    /\ RunReturned =>
           /\ ret \in {NoError, AllChannelsFailedError}
           /\ \A i \in 1 .. Len(outcomes) :
                  outcomes[i] # "ok" => channelIDs[i] \in DOMAIN FailedChannels

\* C28: within one channel the stages run in the order fetch, transform,
\* write: InsertVideoStats is called, and a Put issued, only at the moment the
\* channel's fetch has returned without error, for the channel just fetched
\* and with records built from the videos it returned; a fetch that returned
\* an error is followed by no write.
C28_FetchThenTransformThenWrite ==
    /\ [][insertCalls' # insertCalls =>
             /\ fpc = "fetch" /\ cpc = "returned" /\ fetchErr = NoError
             /\ fetchStarted[Len(fetchStarted)] = channelIDs[idx]
             /\ insertCalls'[Len(insertCalls')]
                    = <<channelIDs[idx], BuildRecords(channelIDs[idx], fetchVideos)>>]_vars
    /\ [][putCalls' # putCalls => insertCalls' # insertCalls]_vars
    /\ [][(fpc = "fetch" /\ cpc = "returned" /\ fetchErr # NoError) =>
             /\ insertCalls' = insertCalls
             /\ putCalls' = putCalls]_vars

C28_Witness ==
    /\ RunReturned
    /\ channelIDs = <<"UCa", "UCb">>
    /\ outcomes = <<"fetchFailed", "ok">>
    /\ Len(insertCalls) = 1
    /\ insertCalls[1][1] = "UCb"
    /\ Len(insertCalls[1][2]) = 2
    /\ putCalls = <<<<"UCb", 2>>>>

(* ------------------ properties of FetchChannelVideos ------------------ *)

\* C12: the pagination loop of FetchChannelVideos terminates for every upstream
\* behaviour, also when the upstream keeps returning a non-empty or oscillating
\* continuation token and maxResults ids are never reached.
C12_PaginationTerminates == (cpc = "page") ~> (cpc # "page")

\* C13: a further page is requested only while the last response carried a
\* non-empty continuation token and fewer than maxResults ids are collected; the
\* loop stops right after the first page with an empty token or with the count at
\* maxResults; the ids of all fetched pages are kept in page order (2 ids and a
\* token, then 1 id and no token: 3 ids after 2 page calls).
C13_PaginationStopsAtTokenOrLimit ==
    /\ (cpc = "page" /\ apiCalls.playlistItems >= 2) =>
          /\ nextPageToken # ""
          /\ Len(allVideoIDs) < maxResults
    /\ cpc = "batch" =>
          \/ nextPageToken = ""
          \/ Len(allVideoIDs) >= maxResults
    /\ \A i \in 1 .. Len(allVideoIDs) : allVideoIDs[i] = i

C13_Witness ==
    /\ cpc = "batch"
    /\ rpc = "loop"
    /\ batchStart = 0
    /\ maxResults = 2 * BatchSize + 1
    /\ apiCalls.playlistItems = 2
    /\ nextPageToken = ""
    /\ allVideoIDs = <<1, 2, 3>>

RECURSIVE Flatten(_)
Flatten(seqs) == IF seqs = <<>> THEN <<>> ELSE Head(seqs) \o Flatten(Tail(seqs))

FetchSucceeded == cpc = "returned" /\ fetchErr = NoError

\* C14: the detail fetch splits the collected ids into consecutive batches of at
\* least 1 and at most 50 ids, every collected id in exactly one batch, and
\* issues exactly one retried videos.list call per batch: ceil(n / 50) calls for
\* n ids when all succeed.
C14_BatchesPartitionCollectedIds ==
    /\ \A k \in 1 .. Len(batchLog) : Len(batchLog[k]) \in 1 .. BatchSize
    /\ Len(batchLog) = apiCalls.videos
    /\ Flatten(batchLog) = SubSeq(allVideoIDs, 1, Len(Flatten(batchLog)))
    /\ cpc = "batch" => Len(Flatten(batchLog)) = BatchEnd(batchStart, allVideoIDs)
    /\ FetchSucceeded =>
          /\ Flatten(batchLog) = allVideoIDs
          /\ Len(batchLog) = (Len(allVideoIDs) + BatchSize - 1) \div BatchSize

C14_Witness ==
    /\ FetchSucceeded
    /\ Len(allVideoIDs) = 2 * BatchSize + 1
    /\ Len(batchLog) = 3
    /\ Len(batchLog[3]) = 1

\* C15: if the call for a detail batch or for a page fails permanently or exhausts
\* its retries, FetchChannelVideos returns an error and no videos at all, the
\* items of earlier successful batches included; no record is written for the
\* channel and the channel is recorded as failed.
C15_FailedCallDiscardsChannel ==
    /\ (cpc = "returned" /\ rresult # NoError) =>
          /\ \/ IsAppError(rresult) /\ ~IsRetriable(rresult)
             \/ rresult.kind = "retryExhausted"
          /\ fetchErr.kind = "wrapped"
          /\ fetchErr.cause = rresult
          /\ fetchVideos = <<>>
    /\ (cpc = "returned" /\ fetchErr # NoError) => fetchVideos = <<>>
    /\ (outcomes = <<"fetchFailed">>) =>
          /\ insertCalls = <<>>
          /\ putCalls = <<>>
          /\ TotalVideos = 0
          /\ SuccessfulChannels = <<>>
          /\ DOMAIN FailedChannels = {channelIDs[1]}
          /\ FailedChannels[channelIDs[1]].type = "API"

C15_Witness ==
    /\ cpc = "returned"
    /\ rresult.kind = "retryExhausted"
    /\ fetchErr = Errorf("videos.list", rresult)
    /\ apiCalls.videos = 2
    /\ Len(allVideos) = BatchSize
    /\ fetchVideos = <<>>

\* channels.list answered without an error and without an item
ChannelNotFound == chResp = [err |-> NoError, items |-> 0, complete |-> TRUE]

\* C16: when the channel id does not resolve (the lookup returns no item), the
\* lookup is made exactly once and not retried, FetchChannelVideos returns an
\* error, no page or detail call is made for that channel, and the channel's
\* sync ends as failed for the run.
C16_UnresolvedChannelFailsAtOnce ==
    /\ [](ChannelNotFound =>
            /\ cpc = "returned"
            /\ fetchErr = Errorf("channels.list", NoError)
            /\ fetchVideos = <<>>
            /\ apiCalls = [NoCalls EXCEPT !.channels = 1]
            /\ batchLog = <<>>
            /\ calls = 0)
    /\ [][ChannelNotFound =>
            /\ outcomes' = Append(outcomes, "fetchFailed")
            /\ channelIDs[idx] \in DOMAIN FailedChannels'
            /\ FailedChannels'[channelIDs[idx]] = API(fetchErr)
            /\ SuccessfulChannels' = SuccessfulChannels
            /\ insertCalls' = insertCalls
            /\ putCalls' = putCalls]_vars

C16_Witness ==
    /\ fpc = "returned"
    /\ outcomes = <<"fetchFailed">>
    /\ FailedChannels = [c \in {"UCa"} |-> API(Errorf("channels.list", NoError))]
    /\ ret # NoError

\* C29: a channel whose channels.list call failed with a transient status
\* (429 or 5xx) is declared failed only after the call was made
\* DefaultConfig.MaxAttempts times (as far as the calls are counted).
C29_ChannelLookupIsRetried ==
    (/\ cpc = "returned"
     /\ chResp.err # NoError
     /\ IsTemporaryStatus(chResp.err.code)) =>
        apiCalls.channels >=
            (IF DefaultConfig.MaxAttempts < MaxCallsCounted
             THEN DefaultConfig.MaxAttempts
             ELSE MaxCallsCounted)

\* C30: every page fetch and every detail-batch fetch has its own retry
\* budget: when the client goes on to a further page or batch after a retried
\* call has returned, the new call starts at attempt 1 with InitialDelay and
\* no attempt made, whatever the call before it used up; and a call gives up
\* for exhaustion only after all MaxAttempts attempts of its own.
C30_RetryBudgetPerCall ==
    /\ [][(rpc = "done" /\ cpc' \in {"page", "batch"}) =>
             /\ rpc' = "loop"
             /\ config' = DefaultConfig
             /\ attempt' = 1
             /\ delay' = DefaultConfig.InitialDelay
             /\ calls' = 0]_vars
    /\ []((cpc \in {"page", "batch"} /\ rpc = "done" /\ rresult.kind = "retryExhausted")
             => calls = DefaultConfig.MaxAttempts)

\* the second page call exhausts its five attempts after the first page call
\* had needed retries
C30_Witness ==
    /\ cpc = "page"
    /\ apiCalls.playlistItems = 2
    /\ Len(allVideoIDs) >= 1
    /\ rpc = "done"
    /\ rresult.kind = "retryExhausted"
    /\ calls = DefaultConfig.MaxAttempts

\* C33: whatever pages the upstream serves, the pagination loop collects at
\* most maxResults item ids for a channel, and the fetch returns at most
\* maxResults videos to build records from.
C33_CollectedIdsWithinMaxResults ==
    /\ Len(allVideoIDs) <= maxResults
    /\ FetchSucceeded => Len(fetchVideos) <= maxResults

(* -------------------- properties of the records ----------------------- *)

\* the date of the run
RunDate == "runDate"

\* a deterministic composition of run date, channel id and item id
IdempotencyKey(date, channelID, videoID) == <<date, channelID, videoID>>

\* C17: every snapshot record carries an idempotency key that is a pure function
\* of (run date, channel id, item id): two builds of a record for the same triple
\* yield the same key even when created_at differs, and the key embeds no
\* time-of-transform value.
C17_RecordsCarryIdempotencyKey ==
    \A c \in 1 .. Len(insertCalls) :
        \A j \in 1 .. Len(insertCalls[c][2]) :
            LET rec == insertCalls[c][2][j]
            IN  SinkRow(rec).InsertID
                    = IdempotencyKey(RunDate, rec.ChannelID, rec.VideoID)

\* the length of an item in milliseconds
LengthMillis(l) ==
    LET n(component) == IF component = <<>> THEN 0 ELSE component[1]
    IN  n(l.days) * 24 * Hour + n(l.hours) * Hour + n(l.minutes) * Minute
            + n(l.seconds) * Second + n(l.tenths) * (Second \div 10)

\* C18: the record of every item that has a duration carries that duration
\* in whole seconds as duration_sec, and is_short exactly when the duration
\* is at most 60 seconds; the fetcher copies both from the client's Video
\* without deriving them again.
C18_DerivedFieldsFollowDuration ==
    itemRecord # <<>> /\ rawItem.present =>
        \A l \in ItemLengths :
            rawItem.Duration = ISODuration(l) =>
                /\ itemRecord[1] = itemVideo[1]
                /\ itemRecord[1].DurationSec = LengthMillis(l) \div Second
                /\ itemRecord[1].IsShort = (LengthMillis(l) <= 60 * Second)

\* C21: all records built for one channel carry the channel's id and one and
\* the same dt, whatever the instants at which they were built.
C21_RecordsShareChannelAndDate ==
    \A i, j \in 1 .. Len(loopRecords) :
        /\ loopRecords[i].ChannelID = loopChannelID
        /\ loopRecords[i].Dt = loopRecords[j].Dt


\* C37: the views, likes and comments of a record are non-negative and equal
\* the uint64 counts the API returned for the item, for every value up to
\* 2^64 - 1.
C37_CountsSurviveConversion ==
    (recordStats # <<>> /\ rawStats.present) =>
        /\ recordStats[1].Views = rawStats.ViewCount
        /\ recordStats[1].Likes = rawStats.LikeCount
        /\ recordStats[1].Comments = rawStats.CommentCount
        /\ recordStats[1].Views >= 0
        /\ recordStats[1].Likes >= 0
        /\ recordStats[1].Comments >= 0

(* --------------------- properties of InsertVideoStats ----------------- *)

\* C19: InsertVideoStats called with no records returns nil without creating
\* an inserter or issuing a Put: no Put ever carries zero records, and the
\* call with no records leaves the Put calls as they were and its channel
\* is counted as successful at once.
C19_EmptyInsertSkipsTransport ==
    /\ [](\A p \in 1 .. Len(putCalls) : putCalls[p][2] >= 1)
    /\ [][(/\ Len(insertCalls') = Len(insertCalls) + 1
           /\ insertCalls'[Len(insertCalls')][2] = <<>>)
            => /\ putCalls' = putCalls
               /\ outcomes' = Append(outcomes, "ok")
               /\ fpc' = "loop"]_vars

C19_Witness ==
    /\ RunReturned
    /\ \E c \in 1 .. Len(insertCalls) : insertCalls[c][2] = <<>>
    /\ putCalls = <<>>
    /\ ret = NoError

\* the fetch of list position i succeeded: its write is done or under way
FetchSucceededAt(i) ==
    \/ i <= Len(outcomes) /\ outcomes[i] # "fetchFailed"
    \/ i = Len(outcomes) + 1 /\ fpc = "insert"

\* the number of list positions up to i whose fetch succeeded
FetchSuccessesUpTo(i) == Cardinality({p \in 1 .. i : FetchSucceededAt(p)})

\* C20: InsertVideoStats is called exactly once for every list position whose
\* fetch succeeded and for no other, in list order; the call is made when the
\* fetch returns and carries all records of the channel, one per fetched
\* video in the order fetched, with the video's id and the channel's id.
C20_OneWritePerFetchedChannel ==
    /\ [](/\ Len(insertCalls) = FetchSuccessesUpTo(Len(channelIDs))
          /\ \A p \in 1 .. Len(channelIDs) :
                FetchSucceededAt(p) =>
                    insertCalls[FetchSuccessesUpTo(p)][1] = channelIDs[p])
    /\ [][IF fpc = "fetch" /\ cpc = "returned" /\ fetchErr = NoError
          THEN /\ Len(insertCalls') = Len(insertCalls) + 1
               /\ LET call == insertCalls'[Len(insertCalls')]
                  IN  /\ insertCalls' = Append(insertCalls, call)
                      /\ call[1] = channelIDs[idx]
                      /\ Len(call[2]) = Len(fetchVideos)
                      /\ \A j \in 1 .. Len(fetchVideos) :
                            /\ call[2][j].VideoID = fetchVideos[j].ID
                            /\ call[2][j].ChannelID = channelIDs[idx]
          ELSE insertCalls' = insertCalls]_vars

C20_Witness ==
    /\ RunReturned
    /\ channelIDs = <<"UCa", "UCb">>
    /\ outcomes = <<"ok", "writeFailed">>
    /\ Len(insertCalls) = 2
    /\ Len(insertCalls[1][2]) = 2
    /\ Len(insertCalls[2][2]) = 1

\* the number of records handed to InsertVideoStats for list position p
RecordsWrittenAt(p) == Len(insertCalls[FetchSuccessesUpTo(p)][2])

RECURSIVE RecordsOfSucceeded(_)
\* the records of the channels among the first n list positions that succeeded
RecordsOfSucceeded(n) ==
    IF n = 0
    THEN 0
    ELSE RecordsOfSucceeded(n - 1)
            + (IF outcomes[n] = "ok" THEN RecordsWrittenAt(n) ELSE 0)

\* C32: TotalVideos is the sum, over the channels whose write succeeded, of
\* the number of records written for the channel, after every channel and so
\* at the end of the run; the records of a channel whose fetch or write
\* failed are not counted.
C32_TotalVideosCountsSucceededChannels ==
    TotalVideos = RecordsOfSucceeded(Len(outcomes))

C32_Witness ==
    /\ RunReturned
    /\ outcomes = <<"writeFailed", "ok">>
    /\ Len(insertCalls[1][2]) = 2
    /\ Len(insertCalls[2][2]) = 1
    /\ TotalVideos = 1

\* the channel resolved and its uploads collection yielded no item ids
UploadsEmpty ==
    /\ cpc = "page" /\ rpc = "done" /\ rresult = NoError
    /\ itResp.complete
    /\ allVideoIDs \o itResp.items = <<>>
    /\ itResp.token = ""

\* C34: a channel that resolves and whose uploads collection yields no item
\* ids gets no videos.list call and no Put: its fetch returns no videos and no
\* error, its write is the no-op of an empty slice, and it is entered in
\* SuccessfulChannels with zero records added to TotalVideos; a run whose
\* channels all ended so, with no Put issued, returns nil.
C34_EmptyUploadsIsSuccessWithoutCalls ==
    /\ [](apiCalls.videos >= 1 => allVideoIDs # <<>>)
    /\ [][UploadsEmpty =>
             /\ cpc' = "returned"
             /\ fetchVideos' = <<>> /\ fetchErr' = NoError
             /\ apiCalls'.videos = 0
             /\ allVideoIDs' = <<>>]_vars
    /\ [][(/\ fpc = "fetch" /\ cpc = "returned"
           /\ fetchErr = NoError /\ allVideoIDs = <<>>)
            => /\ apiCalls.videos = 0
               /\ putCalls' = putCalls
               /\ insertCalls' = Append(insertCalls, <<channelIDs[idx], <<>>>>)
               /\ outcomes' = Append(outcomes, "ok")
               /\ SuccessfulChannels' = Append(SuccessfulChannels, channelIDs[idx])
               /\ FailedChannels' = FailedChannels
               /\ TotalVideos' = TotalVideos]_vars
    /\ []((/\ RunReturned
           /\ putCalls = <<>>
           /\ \A i \in 1 .. Len(channelIDs) :
                  /\ i <= Len(outcomes) /\ outcomes[i] = "ok"
                  /\ insertCalls[i][2] = <<>>)
            => /\ ret = NoError
               /\ TotalVideos = 0
               /\ SuccessfulChannels = channelIDs)

\* the second of two channels returns from a fetch that found no ids, after
\* the first was recorded as successful with an empty write
C34_Witness ==
    /\ fpc = "fetch" /\ cpc = "returned"
    /\ fetchErr = NoError /\ allVideoIDs = <<>>
    /\ apiCalls.playlistItems >= 1 /\ apiCalls.videos = 0
    /\ idx = 2 /\ Len(channelIDs) = 2
    /\ outcomes = <<"ok">>
    /\ insertCalls = <<<<channelIDs[1], <<>>>>>>
    /\ putCalls = <<>>

(* ------------------------ properties of handler ----------------------- *)

\* C22: with no enabled channel id the handler answers 500 with the message
\* "No channels configured" as soon as it has read the configuration, and
\* creates no YouTube client, no BigQuery writer and no FetchAndStore call;
\* FetchAndStore is never called with an empty list.
C22_NoChannelsIsPreconditionFailure ==
    /\ (hpc # "request" /\ GetEnabledChannelIDs(cfgChannels) = <<>>) =>
           /\ hpc = "responded"
           /\ response.status = StatusInternalServerError
           /\ response.body = <<"No channels configured", "\n">>
           /\ handlerCalls = <<>>
    /\ \A c \in 1 .. Len(handlerCalls) :
           handlerCalls[c][1] = "FetchAndStore" => handlerCalls[c][2] # <<>>

C22_Witness ==
    /\ hpc = "responded"
    /\ Len(cfgChannels) = 2
    /\ GetEnabledChannelIDs(cfgChannels) = <<>>
    /\ response.status = StatusInternalServerError

(* ---------------------- properties of cancellation -------------------- *)

\* C23: once the context given to FetchAndStore is done, no fetch is started
\* for a channel that had not begun before.
C23_CancelledRunStartsNoChannel ==
    [][runCtxErr # "none" => fetchStarted' = fetchStarted]_vars

\* C24: once the context given to FetchChannelVideos is done, a page fetch or
\* detail-batch fetch that is between two attempts (asleep, or about to
\* test the loop condition) starts no further attempt.
C24_CancelReachesBackoffSleep ==
    [][(/\ runCtxErr # "none"
        /\ cpc \in {"page", "batch"}
        /\ rpc = "sleep" \/ (rpc = "loop" /\ attempt > 1))
           => calls' = calls]_vars

====
